---- MODULE Spec2Model ----
(***************************************************************************)
(* Model of the expression pipeline of @puck-labs/jsonata: the             *)
(* ExpressionField widget (static/dynamic mode, debounce timer, versioned  *)
(* asynchronous evaluation, coercion of results), as a state machine.      *)
(*                                                                         *)
(* The widget is a controlled React component: the value emitted through  *)
(* onChange is stored by the host editor and passed back as the `value`    *)
(* prop of the next render, so `wv` below is at once the prop              *)
(* (normalizedValue), normalizedValueRef.current and the document's       *)
(* WrappedValue.  Each action is one event (a click, a keystroke, a timer, *)
(* a promise resolution, a provider update) together with the render and   *)
(* the effects React runs for it.  The widget modelled is the one of       *)
(* components/ExpressionField.tsx with emitChange and __error__; the       *)
(* evaluator is evaluateExpression of the expression resolver.  The local  *)
(* evaluationError state only drives the editor's markers and is left out. *)
(*                                                                         *)
(* The tree resolver (resolveExpressions) and the config transformer       *)
(* (withExpressions) work on objects with identity: they are operators on  *)
(* a heap, and have their own specifications, ResolverSpec and ConfigSpec, *)
(* in which no widget is mounted.                                          *)
(***************************************************************************)
EXTENDS Integers, Sequences, FiniteSets, TLC

\* ------------------------------------------------------------------ bounds
\* Evaluations issued in one run (the cap on evaluationVersion).
MaxEvals == 2

\* Objects in the heap handed to resolveExpressions.
MaxObjects == 2

\* --------------------------------------------------------------- JS values
\* A JavaScript value: t is its kind, n its number (or 1/0 for a boolean),
\* s its string (or the source text of an object/array literal).
Num(n)  == [t |-> "number",    n |-> n, s |-> ""]
Str(s)  == [t |-> "string",    n |-> 0, s |-> s]
Bool(b) == [t |-> "boolean",   n |-> IF b THEN 1 ELSE 0, s |-> ""]
Obj(s)  == [t |-> "object",    n |-> 0, s |-> s]
Arr(s)  == [t |-> "array",     n |-> 0, s |-> s]
Undef   == [t |-> "undefined", n |-> 0, s |-> ""]
Null    == [t |-> "null",      n |-> 0, s |-> ""]
NaN     == [t |-> "NaN",       n |-> 0, s |-> ""]

\* !value
IsFalsy(v) ==
  \/ v.t \in {"undefined", "null", "NaN"}
  \/ v.t \in {"number", "boolean"} /\ v.n = 0
  \/ v.t = "string" /\ v.s = ""

\* typeof value === "object" && value !== null
IsObjectLike(v) == v.t \in {"object", "array"}

\* String(value)
JSString(v) ==
  CASE v.t = "string"    -> v.s
    [] v.t = "number"    -> (CASE v.n = 0 -> "0" [] v.n = 1 -> "1" [] v.n = 2 -> "2"
                               [] v.n = 7 -> "7" [] v.n = 42 -> "42" [] OTHER -> "<number>")
    [] v.t = "NaN"       -> "NaN"
    [] v.t = "boolean"   -> (IF v.n = 1 THEN "true" ELSE "false")
    [] v.t = "undefined" -> "undefined"
    [] v.t = "null"      -> "null"
    [] v.t = "object"    -> "[object Object]"
    [] v.t = "array"     -> (CASE v.s = "[1,2]" -> "1,2" [] v.s = "[]" -> "" [] OTHER -> "<array>")

\* An exception in place of a returned value.
Thrown(name) == [t |-> "thrown", n |-> 0, s |-> name]

\* JSON.stringify(value, null, 2) of an object or an array: a string, or a
\* TypeError for an object that refers to itself.
JSONStringify(v) ==
  CASE v.s = "<cyclic>" -> Thrown("TypeError")
    [] v.s = "{a:1}"    -> Str("{\n  \"a\": 1\n}")
    [] v.s = "[1,2]"    -> Str("[\n  1,\n  2\n]")
    [] v.s = "[]"       -> Str("[]")
    [] v.s = "{}"       -> Str("{}")
    [] OTHER            -> Str("<json>")

\* Number(value); NaN when the value does not parse
JSNumber(v) ==
  CASE v.t = "number"    -> v
    [] v.t = "NaN"       -> NaN
    [] v.t = "boolean"   -> Num(v.n)
    [] v.t = "null"      -> Num(0)
    [] v.t = "undefined" -> NaN
    [] v.t = "string"    -> (CASE v.s = "" -> Num(0) [] v.s = "0" -> Num(0) [] v.s = "1" -> Num(1)
                               [] v.s = "2" -> Num(2) [] v.s = "7" -> Num(7) [] v.s = "42" -> Num(42)
                               [] OTHER -> NaN)
    [] v.t = "object"    -> NaN
    [] v.t = "array"     -> (IF v.s = "[]" THEN Num(0) ELSE NaN)

\* ------------------------------------------------------------ coercion
FieldTypes == {"text", "textarea", "number", "select", "radio"}

coerceValueForField(value, fieldType) ==
  IF fieldType \in {"text", "textarea"}
    THEN (IF IsObjectLike(value) THEN JSONStringify(value) ELSE Str(JSString(value)))
  ELSE IF fieldType = "number"
    THEN (IF value.t \in {"number", "NaN"} THEN value
          ELSE LET parsed == JSNumber(value) IN IF parsed.t = "NaN" THEN Num(0) ELSE parsed)
  ELSE IF fieldType \in {"select", "radio"}
    THEN Str(JSString(value))
  ELSE value

\* ------------------------------------------------------- expression text
\* An expression text is a sequence of characters; NoExpr is `undefined`.
NoExpr == <<"undefined">>

RECURSIVE TrimStart(_)
TrimStart(s) == IF s # <<>> /\ Head(s) = " " THEN TrimStart(Tail(s)) ELSE s

RECURSIVE TrimEnd(_)
TrimEnd(s) ==
  IF s # <<>> /\ s[Len(s)] = " " THEN TrimEnd(SubSeq(s, 1, Len(s) - 1)) ELSE s

\* debouncedExpression?.trim()
Trim(s) == IF s = NoExpr THEN NoExpr ELSE TrimEnd(TrimStart(s))

\* !trimmedExpression
IsBlank(s) == Trim(s) = NoExpr \/ Trim(s) = <<>>

\* The texts the user types: blank, two that evaluate, one that fails.
Expressions == { <<" ">>, <<"a">>, <<" ", "b">>, <<"x">> }

\* The ambient scopes the provider supplies.
Scopes == {"scope1", "scope2"}

\* ------------------------------------------------------------ evaluator
\* What a `throw` passes to a catch block: an instance of Error with its
\* message, or any other value.
ErrorInstance(message) == [t |-> "Error", n |-> 0, s |-> message]

\* The outcome of the JSONata engine on the model's expressions: a returned
\* value or a thrown one.  The values come from the scope: a number or
\* nothing, an object or a string, a boolean or null, two arrays, NaN or
\* zero, an object that refers to itself or an empty one.  One text is
\* rejected with a plain object, every other text with an Error.
Jsonata(expression, context) ==
  CASE expression = <<"a">> ->
         [threw |-> FALSE, thrown |-> Undef,
          value |-> IF context = "scope1" THEN Num(7) ELSE Undef]
    [] expression = <<"b">> ->
         [threw |-> FALSE, thrown |-> Undef,
          value |-> IF context = "scope1" THEN Obj("{a:1}") ELSE Str("42")]
    [] expression = <<"t">> ->
         [threw |-> FALSE, thrown |-> Undef,
          value |-> IF context = "scope1" THEN Bool(TRUE) ELSE Null]
    [] expression = <<"l">> ->
         [threw |-> FALSE, thrown |-> Undef,
          value |-> IF context = "scope1" THEN Arr("[1,2]") ELSE Arr("[]")]
    [] expression = <<"n">> ->
         [threw |-> FALSE, thrown |-> Undef,
          value |-> IF context = "scope1" THEN NaN ELSE Num(0)]
    [] expression = <<"c">> ->
         [threw |-> FALSE, thrown |-> Undef,
          value |-> IF context = "scope1" THEN Obj("<cyclic>") ELSE Obj("{}")]
    [] expression = <<"y">> ->
         [threw |-> TRUE, thrown |-> Obj("{code:S0201}"), value |-> Undef]
    [] OTHER ->
         [threw |-> TRUE, thrown |-> ErrorInstance("Syntax error"), value |-> Undef]

NoError == "<absent>"

\* The expression texts the evaluator is called with (the widget trims them).
EvaluatedExpressions ==
  { <<"a">>, <<"b">>, <<"t">>, <<"l">>, <<"n">>, <<"c">>, <<"x">>, <<"y">> }

\* error instanceof Error ? error.message : String(error)
errorMessage(error) == IF error.t = "Error" THEN error.s ELSE JSString(error)

\* `JSONata evaluation failed: ${errorMessage}`, without and with the prefix.
ErrorMessageBare(m) == m

ErrorMessage(m) ==
  CASE m = "Syntax error"    -> "JSONata evaluation failed: Syntax error"
    [] m = "[object Object]" -> "JSONata evaluation failed: [object Object]"
    [] OTHER                 -> "JSONata evaluation failed: <message>"

\* The object evaluateExpression resolves to; keys are the fields it has
\* (value and error hold undefined and NoError where the field is absent).
evaluateExpression(expression, context) ==
  LET r == Jsonata(expression, context) IN
  IF r.threw
    THEN [success |-> FALSE, value |-> Undef,
          error |-> ErrorMessage(errorMessage(r.thrown)),
          keys |-> {"success", "error"}]
    ELSE [success |-> TRUE, value |-> r.value, error |-> NoError,
          keys |-> {"success", "value"}]

\* ------------------------------------------------------- WrappedValue
\* ExpressionFieldValue: __mode__, __value__, __expression__, __staticValue__
\* and __error__ (NoError when the field is absent).
Modes == {"static", "dynamic"}

\* The literals the static control produces for a field type.
StaticLiterals(fieldType) ==
  IF fieldType = "number" THEN {Num(1), Num(2)} ELSE {Str("Hello"), Str("Bye")}

\* ---------------------------------------------------------------- heap
\* Objects with identity: the heap is a sequence of objects, an address is an
\* index in it, and a reference to an object is the value Ref(address).
Ref(a)   == [t |-> "ref",      n |-> a, s |-> ""]
Fn(name) == [t |-> "function", n |-> 0, s |-> name]

\* value !== null && typeof value === "object"
IsRef(v) == v.t = "ref"

\* An object or an array: its own enumerable keys in insertion order (the
\* indices, for an array) and their values.
HeapObject(kind, keys, vals) == [kind |-> kind, keys |-> keys, vals |-> vals]

KeySet(o) == { o.keys[i] : i \in 1..Len(o.keys) }

\* key in o, for an own key
HasKey(o, k) == k \in KeySet(o)

\* o[k]
Get(o, k) ==
  IF HasKey(o, k) THEN o.vals[CHOOSE i \in 1..Len(o.keys) : o.keys[i] = k] ELSE Undef

\* o[k] = v
Put(o, k, v) ==
  IF HasKey(o, k)
    THEN [o EXCEPT !.vals[CHOOSE i \in 1..Len(o.keys) : o.keys[i] = k] = v]
    ELSE [o EXCEPT !.keys = Append(@, k), !.vals = Append(@, v)]

\* ------------------------------------------------------- the value prop
\* The text of a string of one character (the strings the inputs hold as
\* __expression__); undefined when the field is absent.
Text(v) == IF v.t = "string" THEN << v.s >> ELSE NoExpr

\* The fields of an object the widget uses as a WrappedValue, as the widget
\* reads them: an absent field reads as undefined.
ReadWrappedValue(o) ==
  [mode        |-> Get(o, "__mode__").s,
   value       |-> Get(o, "__value__"),
   expression  |-> Text(Get(o, "__expression__")),
   staticValue |-> Get(o, "__staticValue__"),
   error       |-> IF Get(o, "__error__").t = "string"
                     THEN Get(o, "__error__").s ELSE NoError]

\* The values the host passes in at mount, each with the heap that holds it:
\* a bare literal of a document saved before the library was added, or a
\* stored WrappedValue.
IncomingValues(fieldType) ==
  LET lit == IF fieldType = "number" THEN Num(1) ELSE Str("Hello") IN
  { [heap |-> <<>>, value |-> lit],
    [heap |-> << HeapObject("object",
                   <<"__mode__", "__value__", "__expression__", "__staticValue__">>,
                   << Str("dynamic"), lit, Str("a"), lit >>) >>,
     value |-> Ref(1)],
    [heap |-> << HeapObject("object",
                   <<"__mode__", "__value__", "__expression__", "__error__">>,
                   << Str("dynamic"), lit, Str(" "), Str("Error") >>) >>,
     value |-> Ref(1)] }

\* normalizedValue: the value itself when it is an object with a __mode__
\* key, and otherwise a static literal.
Normalize(h, value) ==
  IF ~IsFalsy(value) /\ IsRef(value) /\ HasKey(h[value.n], "__mode__")
    THEN ReadWrappedValue(h[value.n])
    ELSE [mode |-> "static", value |-> value, expression |-> NoExpr,
          staticValue |-> value, error |-> NoError]

\* ------------------------------------------------------------ resolver
isExpressionFieldValueAnyMode(h, value) ==
  /\ IsRef(value)
  /\ HasKey(h[value.n], "__mode__")
  /\ HasKey(h[value.n], "__value__")

isExpressionFieldValue(h, value) ==
  /\ IsRef(value)
  /\ HasKey(h[value.n], "__mode__")
  /\ HasKey(h[value.n], "__value__")
  /\ Get(h[value.n], "__mode__") \in {Str("static"), Str("dynamic")}

resolveFieldValue(h, fieldValue) == Get(h[fieldValue.n], "__value__")

\* The container the results are written to: `result = {}`, or the array
\* that data.map creates.
NewContainerInPlace(h, data) == [heap |-> h, ref |-> data]

NewContainer(h, data) ==
  [heap |-> Append(h, HeapObject(h[data.n].kind, <<>>, <<>>)),
   ref  |-> Ref(Len(h) + 1)]

\* The visited WeakSet is one object shared by all the recursive calls: what
\* a call added is seen by the calls made after it.
CopiedVisited(before, after) == before

SharedVisited(before, after) == after

\* resolveExpressions(data, visited) on heap h.  Returns the heap after the
\* call, the returned value, the visited set after the call, and the objects
\* the call entered (passed the visited check), in order.
RECURSIVE resolveExpressions(_, _, _)
RECURSIVE resolveProperties(_, _, _, _, _)

\* The loop over the own keys (or the items) of h[data.n] from position i on,
\* writing to the container `result`.
resolveProperties(h, data, result, i, visited) ==
  IF i > Len(h[data.n].keys)
    THEN [heap |-> h, visited |-> visited, entered |-> <<>>]
    ELSE LET key   == h[data.n].keys[i]
             r     == resolveExpressions(h, h[data.n].vals[i], visited)
             h2    == [r.heap EXCEPT ![result.n] = Put(@, key, r.value)]
             rest  == resolveProperties(h2, data, result, i + 1,
                                        SharedVisited(visited, r.visited))
         IN [heap |-> rest.heap, visited |-> rest.visited,
             entered |-> r.entered \o rest.entered]

resolveExpressions(h, data, visited) ==
  IF ~IsRef(data)
    THEN [heap |-> h, value |-> data, visited |-> visited, entered |-> <<>>]
  ELSE IF data.n \in visited
    THEN [heap |-> h, value |-> data, visited |-> visited, entered |-> <<>>]
  ELSE LET seen == visited \cup {data.n} IN
    IF isExpressionFieldValue(h, data)
      THEN LET inner == resolveFieldValue(h, data) IN
           IF IsRef(inner)
             THEN LET r == resolveExpressions(h, inner, seen) IN
                  [r EXCEPT !.entered = <<data.n>> \o @]
             ELSE [heap |-> h, value |-> inner, visited |-> seen,
                   entered |-> <<data.n>>]
      ELSE LET c == NewContainer(h, data)
               r == resolveProperties(c.heap, data, c.ref, 1, seen)
           IN [heap |-> r.heap, value |-> c.ref, visited |-> r.visited,
               entered |-> <<data.n>> \o r.entered]

\* --------------------------------------------------- config transformer
\* isPrimitiveField(field)
isPrimitiveField(h, f) == \E ft \in FieldTypes : Get(h[f.n], "type") = Str(ft)

\* The render callback of a wrapped field: it closes over the original field.
ExpressionFieldRender(f) == [t |-> "ExpressionFieldRender", n |-> f.n, s |-> ""]

\* The field a primitive field is replaced by.
CustomField(h, f) ==
  HeapObject("object", <<"type", "label", "render">>,
             << Str("custom"), Get(h[f.n], "label"), ExpressionFieldRender(f) >>)

\* What transformFields stores for a field that is not primitive.
ComplexFieldCloned(h, f) ==
  [heap |-> Append(h, h[f.n]), ref |-> Ref(Len(h) + 1)]

ComplexField(h, f) == [heap |-> h, ref |-> f]

\* What the loop of transformFields does to the heap for an entry that is
\* null or undefined: `continue`, against storing the entry under its key.
SkipFieldKeepsKey(h, transformedFields, fieldKey, f) ==
  [h EXCEPT ![transformedFields.n] = Put(@, fieldKey, f)]

SkipField(h, transformedFields, fieldKey, f) == h

\* The loop of transformFields over the keys of fieldsObj from position i on,
\* writing to transformedFields.
RECURSIVE transformFieldsFrom(_, _, _, _)
transformFieldsFrom(h, fieldsObj, transformedFields, i) ==
  IF i > Len(h[fieldsObj.n].keys) THEN h
  ELSE LET fieldKey == h[fieldsObj.n].keys[i]
           f        == h[fieldsObj.n].vals[i]
       IN IF IsFalsy(f)
            THEN transformFieldsFrom(SkipField(h, transformedFields, fieldKey, f),
                                     fieldsObj, transformedFields, i + 1)
          ELSE IF isPrimitiveField(h, f)
            THEN LET h1 == Append(h, CustomField(h, f))
                     h2 == [h1 EXCEPT ![transformedFields.n] =
                                        Put(@, fieldKey, Ref(Len(h) + 1))]
                 IN transformFieldsFrom(h2, fieldsObj, transformedFields, i + 1)
          ELSE LET c  == ComplexField(h, f)
                   h2 == [c.heap EXCEPT ![transformedFields.n] = Put(@, fieldKey, c.ref)]
               IN transformFieldsFrom(h2, fieldsObj, transformedFields, i + 1)

\* transformFields(fields): the heap after the call and the new fields map.
transformFields(h, fields) ==
  LET h1 == Append(h, HeapObject("object", <<>>, <<>>))
      transformedFields == Ref(Len(h) + 1)
  IN IF IsFalsy(fields) \/ ~IsRef(fields)
       THEN [heap |-> h1, ref |-> transformedFields]
       ELSE [heap |-> transformFieldsFrom(h1, fields, transformedFields, 1),
             ref  |-> transformedFields]

\* The wrapper: a function that closes over OriginalRender (n counts the
\* wrappers around the component's own function).
RenderWithExpressions(OriginalRender) ==
  [t |-> "RenderWithExpressions", n |-> OriginalRender.n + 1, s |-> OriginalRender.s]

\* The function a wrapper closed over.
OriginalRenderOf(render) ==
  IF render.n = 1 THEN Fn(render.s) ELSE [render EXCEPT !.n = @ - 1]

\* `!component?.fields`
HasNoFieldsStrict(h, component) ==
  ~IsRef(component) \/ Get(h[component.n], "fields") = Undef

HasNoFields(h, component) ==
  ~IsRef(component) \/ IsFalsy(Get(h[component.n], "fields"))

\* Where the loop of withExpressions stores a transformed component.
StoreInInput(config, transformedConfig, h) == Get(h[config.n], "components")

StoreInClone(config, transformedConfig, h) == Get(h[transformedConfig.n], "components")

\* The loop of withExpressions over the keys of transformedConfig.components
\* from position i on.
RECURSIVE transformComponentsFrom(_, _, _, _)
transformComponentsFrom(h, config, transformedConfig, i) ==
  LET components == Get(h[transformedConfig.n], "components") IN
  IF i > Len(h[components.n].keys) THEN h
  ELSE LET componentKey == h[components.n].keys[i]
           component    == Get(h[Get(h[config.n], "components").n], componentKey)
       IN IF HasNoFields(h, component)
            THEN transformComponentsFrom(h, config, transformedConfig, i + 1)
            ELSE LET OriginalRender == Get(h[component.n], "render")
                     tf == transformFields(h, Get(h[component.n], "fields"))
                     h1 == Append(tf.heap,
                                  Put(Put(h[component.n], "fields", tf.ref),
                                      "render", RenderWithExpressions(OriginalRender)))
                     target == StoreInClone(config, transformedConfig, h1)
                     h2 == [h1 EXCEPT ![target.n] =
                                        Put(@, componentKey, Ref(Len(tf.heap) + 1))]
                 IN transformComponentsFrom(h2, config, transformedConfig, i + 1)

\* withExpressions(config): the heap after the call and the returned config.
withExpressions(h, config) ==
  LET h1 == Append(h, h[Get(h[config.n], "components").n])
      h2 == Append(h1, Put(h[config.n], "components", Ref(Len(h) + 1)))
      transformedConfig == Ref(Len(h) + 2)
  IN [heap |-> transformComponentsFrom(h2, config, transformedConfig, 1),
      ref  |-> transformedConfig]

\* What a component's own render function returns: a React element that
\* depends on the function and on the props it was given.
Element(render, props) == [t |-> "element", n |-> props.n, s |-> render.s]

\* A call of a component's render function with props: the heap after it, the
\* calls made, in order, and the returned value.
RECURSIVE CallRender(_, _, _)

\* RenderWithExpressions(props), without and with the use of the resolution.
CallWrapperUnresolved(h, render, props) ==
  LET resolvedProps == resolveExpressions(h, props, {})
      inner == CallRender(resolvedProps.heap, OriginalRenderOf(render), props)
  IN [heap |-> inner.heap,
      calls |-> << [fn |-> "resolveExpressions", depth |-> render.n, arg |-> props] >>
                \o inner.calls,
      returned |-> inner.returned]

CallWrapper(h, render, props) ==
  LET resolvedProps == resolveExpressions(h, props, {})
      inner == CallRender(resolvedProps.heap, OriginalRenderOf(render),
                          resolvedProps.value)
  IN [heap |-> inner.heap,
      calls |-> << [fn |-> "resolveExpressions", depth |-> render.n, arg |-> props] >>
                \o inner.calls,
      returned |-> inner.returned]

CallRender(h, render, props) ==
  IF render.t = "RenderWithExpressions"
    THEN CallWrapper(h, render, props)
    ELSE [heap |-> h,
          calls |-> << [fn |-> render.s, depth |-> 0, arg |-> props] >>,
          returned |-> Element(render, props)]

VARIABLES
  field,                \* the field's declared type (the `field` prop)
  context,              \* useExpressionContext(): the ambient scope
  wv,                   \* the WrappedValue: value prop = normalizedValueRef.current
  currentMode,          \* useState: the widget's mode
  debouncedExpression,  \* useState: the debounced expression text
  timers,               \* pending debounce timers, each with the text it captured
  evaluationVersion,    \* useRef: the race-protection counter
  inflight,             \* evaluations issued and not yet completed
  lastOp,               \* history: the event handled by the last step
  latestEval,           \* history: the most recently issued evaluation
  burst,                \* history: expression edits since the last timer firing
  pipeline              \* the heap and the calls of the resolver and the transformer

\* The parts of `pipeline`.
heap              == pipeline.heap               \* the objects of props and configs
data              == pipeline.data               \* the argument of resolveExpressions
resolved          == pipeline.resolved           \* history: the last resolveExpressions
config            == pipeline.config             \* the argument of withExpressions
transformedConfig == pipeline.transformedConfig  \* what withExpressions returned
rendered          == pipeline.rendered           \* history: the last render call
evaluations       == pipeline.evaluations        \* history: evaluateExpression calls
valueProp         == pipeline.valueProp          \* history: the value prop at mount

widgetVars == << field, context, wv, currentMode, debouncedExpression, timers,
                 evaluationVersion, inflight, lastOp, latestEval, burst >>

pipelineVars == << pipeline >>

vars == << field, context, wv, currentMode, debouncedExpression, timers,
           evaluationVersion, inflight, lastOp, latestEval, burst,
           pipeline >>

\* ------------------------------------------------------------- effects
\* The debounce effect (deps: normalizedValue.__expression__): when the text
\* changed, the cleanup clears the pending timer and a new one is started.
DebounceEffectLeaky(pending, oldExpression, newExpression) ==
  IF newExpression # oldExpression THEN pending \cup {newExpression} ELSE pending

DebounceEffect(pending, oldExpression, newExpression) ==
  IF newExpression # oldExpression THEN {newExpression} ELSE pending

\* The record an issued evaluation closes over.
Issued(version, mode, expression, ctx) ==
  [version |-> version, expression |-> expression, context |-> ctx,
   modeAtEvalStart |-> mode, currentMode |-> mode]

\* evaluationVersion.current += 1, without and with the increment.
NextVersionStuck(version) == version

NextVersion(version) == version + 1

\* The synchronous part of the evaluation effect
\* (deps: context, currentMode, debouncedExpression, field).
EvaluationEffectUnguarded(mode, debounced, ctx, latest, version, pending) ==
  IF IsBlank(debounced)
    THEN [wv |-> IF latest.error # NoError /\ latest.error # ""
                   THEN [latest EXCEPT !.error = NoError] ELSE latest,
          version |-> version, inflight |-> pending, issued |-> FALSE,
          emitted |-> latest.error # NoError /\ latest.error # ""]
    ELSE [wv |-> latest, version |-> version + 1,
          inflight |-> pending \cup {Issued(version + 1, mode, Trim(debounced), ctx)},
          issued |-> TRUE, emitted |-> FALSE]

\* The same without the test of the trimmed text.
EvaluationEffectBlankIssues(mode, debounced, ctx, latest, version, pending) ==
  IF mode # "dynamic"
    THEN [wv |-> latest, version |-> version, inflight |-> pending,
          issued |-> FALSE, emitted |-> FALSE]
    ELSE [wv |-> latest, version |-> version + 1,
          inflight |-> pending \cup {Issued(version + 1, mode, Trim(debounced), ctx)},
          issued |-> TRUE, emitted |-> FALSE]

EvaluationEffect(mode, debounced, ctx, latest, version, pending) ==
  IF mode # "dynamic"
    THEN [wv |-> latest, version |-> version, inflight |-> pending,
          issued |-> FALSE, emitted |-> FALSE]
  ELSE IF IsBlank(debounced)
    THEN [wv |-> IF latest.error # NoError /\ latest.error # ""
                   THEN [latest EXCEPT !.error = NoError] ELSE latest,
          version |-> version, inflight |-> pending, issued |-> FALSE,
          emitted |-> latest.error # NoError /\ latest.error # ""]
    ELSE [wv |-> latest, version |-> NextVersion(version),
          inflight |-> pending \cup {Issued(NextVersion(version), mode, Trim(debounced), ctx)},
          issued |-> TRUE, emitted |-> FALSE]

\* A render in which the evaluation effect's dependencies did not change:
\* the effect running all the same, and the effect skipped.
NoEffectReruns(latest, version, pending) ==
  [wv |-> latest, version |-> version + 1,
   inflight |-> pending \cup {Issued(version + 1, "dynamic", Trim(latest.expression),
                                     "scope1")},
   issued |-> TRUE, emitted |-> FALSE]

NoEffect(latest, version, pending) ==
  [wv |-> latest, version |-> version, inflight |-> pending,
   issued |-> FALSE, emitted |-> FALSE]

\* The test a completion makes before applying its result.  The closure holds
\* the currentMode of the render that issued the evaluation.
IsDiscardedNoVersion(e, version) ==
  e.modeAtEvalStart # e.currentMode \/ e.currentMode # "dynamic"

IsDiscarded(e, version) ==
  \/ e.version # version
  \/ e.modeAtEvalStart # e.currentMode
  \/ e.currentMode # "dynamic"

\* ------------------------------------------------- emitted WrappedValues
\* handleModeChange: {...normalizedValue, __mode__: newMode}, __error__
\* deleted, __value__ restored from __staticValue__ on the way to static.
ModeChangeValueDropsExpression(normalizedValue, newMode) ==
  LET nextValue == [normalizedValue EXCEPT !.mode = newMode, !.error = NoError,
                                           !.expression = NoExpr] IN
  IF newMode = "static" /\ normalizedValue.staticValue # Undef
    THEN [nextValue EXCEPT !.value = normalizedValue.staticValue]
    ELSE nextValue

ModeChangeValueKeepsError(normalizedValue, newMode) ==
  LET nextValue == [normalizedValue EXCEPT !.mode = newMode] IN
  IF newMode = "static" /\ normalizedValue.staticValue # Undef
    THEN [nextValue EXCEPT !.value = normalizedValue.staticValue]
    ELSE nextValue

ModeChangeValue(normalizedValue, newMode) ==
  LET nextValue == [normalizedValue EXCEPT !.mode = newMode, !.error = NoError] IN
  IF newMode = "static" /\ normalizedValue.staticValue # Undef
    THEN [nextValue EXCEPT !.value = normalizedValue.staticValue]
    ELSE nextValue

\* handleStaticValueChange, without and with the write of __staticValue__.
StaticChangeValueForgetsCache(normalizedValue, newValue) ==
  [normalizedValue EXCEPT !.value = newValue, !.error = NoError]

StaticChangeValue(normalizedValue, newValue) ==
  [normalizedValue EXCEPT !.value = newValue, !.staticValue = newValue,
                          !.error = NoError]

\* handleExpressionChange
ExpressionChangeValueKeepsError(normalizedValue, newExpression) ==
  [normalizedValue EXCEPT !.expression = newExpression]

ExpressionChangeValueResetsValue(normalizedValue, newExpression) ==
  [normalizedValue EXCEPT !.expression = newExpression, !.error = NoError,
                          !.value = Undef]

ExpressionChangeValue(normalizedValue, newExpression) ==
  [normalizedValue EXCEPT !.expression = newExpression, !.error = NoError]

\* The value an applied completion emits, success branch.
SuccessValueUncoerced(latest, result, fieldType) ==
  [latest EXCEPT !.mode = "dynamic", !.value = result.value, !.error = NoError]

SuccessValue(latest, result, fieldType) ==
  [latest EXCEPT !.mode = "dynamic",
                 !.value = coerceValueForField(result.value, fieldType),
                 !.error = NoError]

\* The value an applied completion emits, failure branch.
FailureValueOverwrites(latest, result, fieldType) ==
  [latest EXCEPT !.mode = "dynamic",
                 !.value = coerceValueForField(result.value, fieldType),
                 !.error = IF result.error = NoError
                             THEN "JSONata evaluation failed" ELSE result.error]

FailureValue(latest, result, fieldType) ==
  [latest EXCEPT !.mode = "dynamic",
                 !.value = latest.value,
                 !.error = IF result.error = NoError
                             THEN "JSONata evaluation failed" ELSE result.error]

\* The coercion of an applied, successful completion throws.
CompletionRaises(discarded, result, fieldType) ==
  /\ ~discarded
  /\ result.success
  /\ coerceValueForField(result.value, fieldType).t = "thrown"

\* The same, also writing the result to __staticValue__.
CompletionValueCachesResult(latest, result, fieldType) ==
  LET nextValue == IF result.success THEN SuccessValue(latest, result, fieldType)
                                     ELSE FailureValue(latest, result, fieldType)
  IN [nextValue EXCEPT !.staticValue = nextValue.value]

CompletionValue(latest, result, fieldType) ==
  IF result.success THEN SuccessValue(latest, result, fieldType)
                    ELSE FailureValue(latest, result, fieldType)

\* ------------------------------------------------------------- history
NoEval == Issued(0, "dynamic", NoExpr, "scope1")

\* kind: the event; emitted: onChange was called; issued: evaluateExpression
\* was called; hadError: __error__ was present when the event arrived;
\* coalesced: for a timer firing, the edits made since the last firing;
\* toggled: for a tab click, the widget's mode changed.
Op(kind, emitted, issued, before, coalesced, toggled) ==
  [kind |-> kind, emitted |-> emitted, issued |-> issued,
   hadError |-> before.error # NoError, coalesced |-> coalesced,
   toggled |-> toggled]

\* The edits made since the last timer firing (2 stands for 2 or more).
BurstAfterEdit(edits) == IF edits >= 2 THEN 2 ELSE edits + 1

\* latestEval after a step that ran the evaluation effect.
AfterEffect(eff, mode, debounced, ctx) ==
  IF eff.issued
    THEN [eval |-> Issued(eff.version, mode, Trim(debounced), ctx), status |-> "pending"]
    ELSE latestEval

\* A user handler that rewrites __value__ after the latest evaluation completed.
Touched(l) == IF l.status = "done" THEN [l EXCEPT !.status = "touched"] ELSE l

\* ------------------------------------------------- parts that are not running
\* The resolver and the config transformer have not been called.
NotResolved ==
  [calls |-> 0, input |-> Undef, before |-> <<>>, value |-> Undef,
   previous |-> Undef, entered |-> <<>>]

NotRendered ==
  [count |-> 0, component |-> "", render |-> Undef, props |-> Undef,
   calls |-> <<>>, returned |-> Undef]

PipelineIdle ==
  pipeline = [heap |-> <<>>, data |-> Undef, resolved |-> NotResolved,
              config |-> Undef, transformedConfig |-> Undef,
              rendered |-> NotRendered, evaluations |-> <<>>,
                   valueProp |-> Undef]

\* No widget is mounted.
WidgetUnmounted ==
  /\ field = "text"
  /\ context = "scope1"
  /\ wv = Normalize(<<>>, Undef)
  /\ currentMode = "static"
  /\ debouncedExpression = NoExpr
  /\ timers = {}
  /\ evaluationVersion = 0
  /\ inflight = {}
  /\ lastOp = [kind |-> "none", emitted |-> FALSE, issued |-> FALSE,
               hadError |-> FALSE, coalesced |-> 0, toggled |-> FALSE]
  /\ latestEval = [eval |-> NoEval, status |-> "none"]
  /\ burst = 0

\* ---------------------------------------------------------------- Init
\* The field types the widget is mounted with in this model: one of the
\* JSON-serialising types and the parsing type.
MountedFieldTypes == {"text", "number"}

\* The widget's state after a mount with a field type, a scope and a
\* normalizedValue: both effects have run once.
Mounted(ft, c, normalizedValue) ==
  LET eff == EvaluationEffect(normalizedValue.mode, normalizedValue.expression,
                              c, normalizedValue, 0, {})
  IN /\ field = ft
     /\ context = c
     /\ wv = eff.wv
     /\ currentMode = normalizedValue.mode
     /\ debouncedExpression = normalizedValue.expression
     /\ timers = {normalizedValue.expression}
     /\ evaluationVersion = eff.version
     /\ inflight = eff.inflight
     /\ lastOp = Op("mount", eff.emitted, eff.issued, normalizedValue, 0, FALSE)
     /\ latestEval = IF eff.issued
                       THEN [eval |-> Issued(eff.version, normalizedValue.mode,
                                             Trim(normalizedValue.expression), c),
                             status |-> "pending"]
                       ELSE [eval |-> NoEval, status |-> "none"]
     /\ burst = 0

Init ==
  \E ft \in MountedFieldTypes, c \in Scopes :
    \E incoming \in IncomingValues(ft) :
      /\ Mounted(ft, c, Normalize(incoming.heap, incoming.value))
      /\ PipelineIdle

\* ------------------------------------------------------------- actions
\* A click on the Static or the Dynamic tab.
handleModeChange(newMode) ==
  LET nextValue == ModeChangeValue(wv, newMode)
      eff == IF newMode # currentMode
               THEN EvaluationEffect(newMode, debouncedExpression, context,
                                     nextValue, evaluationVersion, inflight)
               ELSE NoEffect(nextValue, evaluationVersion, inflight)
  IN /\ eff.version <= MaxEvals
     /\ currentMode' = newMode
     /\ wv' = eff.wv
     /\ evaluationVersion' = eff.version
     /\ inflight' = eff.inflight
     /\ lastOp' = Op("mode", TRUE, eff.issued, wv, 0, newMode # currentMode)
     /\ latestEval' = Touched(AfterEffect(eff, newMode, debouncedExpression, context))
     /\ UNCHANGED << field, context, debouncedExpression, timers, burst >>
     /\ UNCHANGED pipelineVars

\* An edit in the static control (rendered only while currentMode is static).
handleStaticValueChange(newValue) ==
  /\ currentMode = "static"
  /\ wv' = StaticChangeValue(wv, newValue)
  /\ lastOp' = Op("static", TRUE, FALSE, wv, 0, FALSE)
  /\ latestEval' = Touched(latestEval)
  /\ UNCHANGED << field, context, currentMode, debouncedExpression, timers,
                  evaluationVersion, inflight, burst >>
  /\ UNCHANGED pipelineVars

\* An edit in the expression editor (rendered while currentMode is not static).
handleExpressionChange(newExpression) ==
  /\ currentMode # "static"
  /\ wv' = ExpressionChangeValue(wv, newExpression)
  /\ timers' = DebounceEffect(timers, wv.expression, newExpression)
  /\ lastOp' = Op("expression", TRUE, FALSE, wv, 0, FALSE)
  /\ burst' = BurstAfterEdit(burst)
  /\ UNCHANGED << field, context, currentMode, debouncedExpression,
                  evaluationVersion, inflight, latestEval >>
  /\ UNCHANGED pipelineVars

\* A debounce timer fires: setDebouncedExpression(text it captured).
DebounceTimerFires(t) ==
  LET eff == IF t # debouncedExpression
               THEN EvaluationEffect(currentMode, t, context, wv,
                                     evaluationVersion, inflight)
               ELSE NoEffect(wv, evaluationVersion, inflight)
  IN /\ t \in timers
     /\ eff.version <= MaxEvals
     /\ timers' = timers \ {t}
     /\ debouncedExpression' = t
     /\ wv' = eff.wv
     /\ evaluationVersion' = eff.version
     /\ inflight' = eff.inflight
     /\ lastOp' = Op("timer", eff.emitted, eff.issued, wv, burst, FALSE)
     /\ latestEval' = AfterEffect(eff, currentMode, t, context)
     /\ burst' = 0
     /\ UNCHANGED << field, context, currentMode >>
     /\ UNCHANGED pipelineVars

\* The provider supplies another scope object: with an evaluation effect
\* that does not name context among its dependencies, and with the effect
\* of the code.
ContextChangesNoEffect(c) ==
  /\ c # context
  /\ context' = c
  /\ lastOp' = Op("context", FALSE, FALSE, wv, 0, FALSE)
  /\ UNCHANGED << field, wv, currentMode, debouncedExpression, timers,
                  evaluationVersion, inflight, latestEval, burst >>
  /\ UNCHANGED pipelineVars

ContextChanges(c) ==
  LET eff == EvaluationEffect(currentMode, debouncedExpression, c, wv,
                              evaluationVersion, inflight)
  IN /\ c # context
     /\ eff.version <= MaxEvals
     /\ context' = c
     /\ wv' = eff.wv
     /\ evaluationVersion' = eff.version
     /\ inflight' = eff.inflight
     /\ lastOp' = Op("context", eff.emitted, eff.issued, wv, 0, FALSE)
     /\ latestEval' = AfterEffect(eff, currentMode, debouncedExpression, c)
     /\ UNCHANGED << field, currentMode, debouncedExpression, timers, burst >>
     /\ UNCHANGED pipelineVars

\* The promise of an issued evaluation resolves.  When the coercion throws,
\* the async function rejects before it emits, and nothing handles the
\* rejection.
EvaluationCompletes(e) ==
  LET result == evaluateExpression(e.expression, e.context)
      discarded == IsDiscarded(e, evaluationVersion)
      raised == CompletionRaises(discarded, result, field)
  IN /\ e \in inflight
     /\ inflight' = inflight \ {e}
     /\ wv' = IF discarded \/ raised THEN wv ELSE CompletionValue(wv, result, field)
     /\ lastOp' = Op(IF raised THEN "rejection" ELSE "completion",
                     ~discarded /\ ~raised, FALSE, wv, 0, FALSE)
     /\ latestEval' = IF e.version = evaluationVersion
                        THEN [latestEval EXCEPT !.status = "done"] ELSE latestEval
     /\ UNCHANGED << field, context, currentMode, debouncedExpression, timers,
                     evaluationVersion, burst >>
     /\ UNCHANGED pipelineVars

Next ==
  \/ \E newMode \in Modes : handleModeChange(newMode)
  \/ \E newValue \in StaticLiterals(field) : handleStaticValueChange(newValue)
  \/ \E newExpression \in Expressions : handleExpressionChange(newExpression)
  \/ \E t \in timers : DebounceTimerFires(t)
  \/ \E c \in Scopes : ContextChanges(c)
  \/ \E e \in inflight : EvaluationCompletes(e)

Spec == Init /\ [][Next]_vars

\* The steps the widget takes by itself: a pending debounce timer fires, and
\* the promise of an issued evaluation settles.
SystemStep ==
  \/ \E t \in timers : DebounceTimerFires(t)
  \/ \E e \in inflight : EvaluationCompletes(e)

\* The widget with its scheduling: a timer that is pending fires, and an
\* evaluation that was issued completes.
FairSpec ==
  /\ Spec
  /\ WF_vars(\E t \in timers : DebounceTimerFires(t))
  /\ WF_vars(\E e \in inflight : EvaluationCompletes(e))

\* ---------------------------------------------------------- type check
TypeOK ==
  /\ field \in FieldTypes
  /\ context \in Scopes
  /\ wv.mode \in Modes
  /\ currentMode \in Modes
  /\ evaluationVersion \in 0..MaxEvals
  /\ \A e \in inflight : e.version \in 1..evaluationVersion

\* ============================================ the widget on any host value
\* The values a host may pass in at mount for a field type: literals, falsy
\* values, a stored WrappedValue of either mode with each expression of the
\* evaluator, objects that hold a part of the WrappedValue fields or a mode
\* the widget does not know, a plain object and an array.
HostValues(fieldType) ==
  LET lit == IF fieldType = "number" THEN Num(1) ELSE Str("Hello") IN
  { [heap |-> <<>>, value |-> v] :
      v \in {lit, Str(""), Num(0), Bool(FALSE), Null, Undef} }
  \cup { [heap |-> << HeapObject("object",
                        <<"__mode__", "__value__", "__expression__", "__staticValue__">>,
                        << Str("dynamic"), lit, Str(e[1]), lit >>) >>,
          value |-> Ref(1)] : e \in EvaluatedExpressions }
  \cup { [heap |-> << o >>, value |-> Ref(1)] :
           o \in { HeapObject("object", <<"__mode__", "__value__", "__staticValue__">>,
                              << Str("static"), lit, lit >>),
                   HeapObject("object", <<"__mode__", "__value__">>,
                              << Str("auto"), lit >>),
                   HeapObject("object", <<"__mode__">>, << Str("static") >>),
                   HeapObject("object", <<"__mode__", "__expression__">>,
                              << Str("dynamic"), Str("a") >>),
                   HeapObject("object", <<"__value__">>, << lit >>),
                   HeapObject("object", <<"a">>, << Num(1) >>),
                   HeapObject("array", <<"0">>, << lit >>) } }

\* The widget mounted with any primitive field type on any host value.
MountInit ==
  \E ft \in FieldTypes, c \in Scopes :
    \E incoming \in HostValues(ft) :
      /\ Mounted(ft, c, Normalize(incoming.heap, incoming.value))
      /\ pipeline = [heap |-> incoming.heap, data |-> Undef, resolved |-> NotResolved,
                     config |-> Undef, transformedConfig |-> Undef,
                     rendered |-> NotRendered, evaluations |-> <<>>,
                     valueProp |-> incoming.value]

\* After the mount: tab clicks, edits in the static control and completions.
MountNext ==
  \/ \E newMode \in Modes : handleModeChange(newMode)
  \/ \E newValue \in StaticLiterals(field) : handleStaticValueChange(newValue)
  \/ \E e \in inflight : EvaluationCompletes(e)

MountSpec == MountInit /\ [][MountNext]_vars

\* ===================================================== the tree resolver
\* The values a property or an item holds in the inputs: two primitives and
\* references to the objects of the heap.
SlotValues == {Str("Hello"), Null} \cup { Ref(a) : a \in 1..MaxObjects }

\* The objects of the inputs: a plain object, an array, an empty array, a
\* static and a dynamic WrappedValue, and an object that has __mode__ and
\* __value__ but no mode of the widget.
InputObjects ==
  { HeapObject("object", <<"a", "b">>, <<x, y>>) : x \in SlotValues, y \in SlotValues }
  \cup { HeapObject("array", <<"0", "1">>, <<x, y>>) : x \in SlotValues, y \in SlotValues }
  \cup { HeapObject("array", <<>>, <<>>) }
  \cup { HeapObject("object", <<"__mode__", "__value__", "__staticValue__">>,
                    <<Str("static"), x, x>>) : x \in SlotValues }
  \cup { HeapObject("object", <<"__mode__", "__value__", "__expression__">>,
                    <<Str("dynamic"), x, Str("a")>>) : x \in SlotValues }
  \cup { HeapObject("object", <<"__mode__", "__value__">>,
                    <<Str("auto"), x>>) : x \in SlotValues }

\* The arguments of resolveExpressions: the first object of a heap, or a
\* primitive, null or undefined.
ResolverInputs ==
  { [heap |-> h, data |-> Ref(1)] : h \in [1..MaxObjects -> InputObjects] }
  \cup { [heap |-> <<>>, data |-> p] : p \in {Str("Hello"), Num(1), Bool(FALSE), Null, Undef} }

ResolverInit ==
  /\ WidgetUnmounted
  /\ \E in \in ResolverInputs :
       pipeline = [heap |-> in.heap, data |-> in.data, resolved |-> NotResolved,
                   config |-> Undef, transformedConfig |-> Undef,
                   rendered |-> NotRendered, evaluations |-> <<>>,
                   valueProp |-> Undef]

\* resolveExpressions(data), with a new WeakSet.
CallResolveExpressions ==
  LET r == resolveExpressions(heap, data, {}) IN
  /\ resolved.calls = 0
  /\ pipeline' = [pipeline EXCEPT
       !.heap = r.heap,
       !.resolved = [calls |-> 1, input |-> data, before |-> heap,
                     value |-> r.value, previous |-> Undef,
                     entered |-> r.entered]]
  /\ UNCHANGED widgetVars

\* resolveExpressions(what the first call returned), with a new WeakSet.
CallResolveExpressionsAgain ==
  LET r == resolveExpressions(heap, resolved.value, {}) IN
  /\ resolved.calls = 1
  /\ pipeline' = [pipeline EXCEPT
       !.heap = r.heap,
       !.data = resolved.value,
       !.resolved = [calls |-> 2, input |-> resolved.value, before |-> heap,
                     value |-> r.value, previous |-> resolved.value,
                     entered |-> r.entered]]
  /\ UNCHANGED widgetVars

ResolverNext == CallResolveExpressions \/ CallResolveExpressionsAgain

ResolverSpec == ResolverInit /\ [][ResolverNext]_vars

\* ================================================ the config transformer
\* Renders made in one run.
MaxRenders == 2

\* A component declares a fields map, declares none, or declares null or
\* undefined.
ComponentObject(fields, render) ==
  { HeapObject("object", <<"fields", "render">>, << fields, Fn(render) >>),
    HeapObject("object", <<"render">>, << Fn(render) >>),
    HeapObject("object", <<"fields", "render">>, << Null, Fn(render) >>),
    HeapObject("object", <<"fields", "render">>, << Undef, Fn(render) >>) }

\* The types of the field at address 8: the primitive ones and three others.
DeclaredTypes == FieldTypes \cup {"custom", "slot", "external"}

\* The configs: a config with two components, each with a fields map of two
\* entries drawn from a field of any type, an array field with nested
\* arrayFields, null and undefined.  After the config, a props object with a
\* title.
ConfigHeaps ==
  { << HeapObject("object", <<"components", "categories">>, << Ref(2), Ref(3) >>),
       HeapObject("object", <<"Hero", "Card">>, << Ref(4), Ref(5) >>),
       HeapObject("object", <<>>, <<>>),
       hero,
       card,
       HeapObject("object", <<"title", "items">>, << x, y >>),
       HeapObject("object", <<"items", "title">>, << y, Null >>),
       HeapObject("object", <<"type", "label">>, << Str(ty), Str("Title") >>),
       HeapObject("object", <<"type", "label", "arrayFields">>,
                  << Str("array"), Str("Items"), Ref(10) >>),
       HeapObject("object", <<"name">>, << Ref(8) >>),
       HeapObject("object", <<"title", "id">>, << title, Str("Hero-1") >>),
       HeapObject("object", <<"__mode__", "__value__", "__staticValue__">>,
                  << Str("static"), Str("Hello"), Str("Hello") >>) >> :
    hero \in ComponentObject(Ref(6), "Hero"),
    card \in ComponentObject(Ref(7), "Card"),
    x \in {Ref(8), Null, Undef},
    y \in {Ref(9), Ref(8)},
    ty \in DeclaredTypes,
    title \in {Ref(12), Str("Hello")} }

ConfigInit ==
  /\ WidgetUnmounted
  /\ \E h \in ConfigHeaps :
       pipeline = [heap |-> h, data |-> Ref(11), resolved |-> NotResolved,
                   config |-> Ref(1), transformedConfig |-> Undef,
                   rendered |-> NotRendered, evaluations |-> <<>>,
                   valueProp |-> Undef]

\* withExpressions(config)
CallWithExpressions ==
  LET r == withExpressions(heap, config) IN
  /\ transformedConfig = Undef
  /\ pipeline' = [pipeline EXCEPT !.heap = r.heap, !.transformedConfig = r.ref]
  /\ UNCHANGED widgetVars

\* The host renders a component of the transformed config with the props.
RenderComponent(componentKey) ==
  /\ transformedConfig # Undef
  /\ rendered.count < MaxRenders
  /\ LET components == Get(heap[transformedConfig.n], "components")
         component  == Get(heap[components.n], componentKey)
         render     == Get(heap[component.n], "render")
         r          == CallRender(heap, render, data)
     IN pipeline' = [pipeline EXCEPT
          !.heap = r.heap,
          !.rendered = [count |-> rendered.count + 1, component |-> componentKey,
                        render |-> render, props |-> data,
                        calls |-> r.calls, returned |-> r.returned]]
  /\ UNCHANGED widgetVars

ConfigNext ==
  \/ CallWithExpressions
  \/ \E componentKey \in {"Hero", "Card"} : RenderComponent(componentKey)

ConfigSpec == ConfigInit /\ [][ConfigNext]_vars

\* ------------------------------------- the config transformer, applied twice
\* The configs above, each also with a props object whose title and subtitle
\* are one and the same WrappedValue object.
TwiceHeaps ==
  ConfigHeaps
  \cup { [h EXCEPT ![11] = HeapObject("object", <<"title", "subtitle">>,
                                      << Ref(12), Ref(12) >>)] : h \in ConfigHeaps }

TwiceInit ==
  /\ WidgetUnmounted
  /\ \E h \in TwiceHeaps :
       pipeline = [heap |-> h, data |-> Ref(11), resolved |-> NotResolved,
                   config |-> Ref(1), transformedConfig |-> Undef,
                   rendered |-> NotRendered, evaluations |-> <<>>,
                   valueProp |-> Undef]

\* withExpressions(what the first call returned)
CallWithExpressionsAgain ==
  LET r == withExpressions(heap, transformedConfig) IN
  /\ transformedConfig # Undef
  /\ config = Ref(1)
  /\ pipeline' = [pipeline EXCEPT !.heap = r.heap, !.config = transformedConfig,
                                  !.transformedConfig = r.ref]
  /\ UNCHANGED widgetVars

TwiceNext ==
  \/ CallWithExpressions
  \/ CallWithExpressionsAgain
  \/ \E componentKey \in {"Hero", "Card"} : RenderComponent(componentKey)

TwiceSpec == TwiceInit /\ [][TwiceNext]_vars

\* ========================================================= the evaluator
\* Calls of evaluateExpression made in one run.
MaxCalls == 2

EvaluatorInit ==
  /\ WidgetUnmounted
  /\ PipelineIdle

\* evaluateExpression(expression, context): the call returns a promise.
CallEvaluateExpression(expression, ctx) ==
  /\ Len(evaluations) < MaxCalls
  /\ pipeline' = [pipeline EXCEPT !.evaluations =
       Append(@, [expression |-> expression, context |-> ctx, promise |-> "pending",
                  result |-> [success |-> FALSE, value |-> Undef, error |-> NoError,
                              keys |-> {}]])]
  /\ UNCHANGED widgetVars

\* The promise of the i-th call settles: the try block returned or the catch
\* block did.
PromiseSettles(i) ==
  /\ evaluations[i].promise = "pending"
  /\ pipeline' = [pipeline EXCEPT
       !.evaluations[i].promise = "fulfilled",
       !.evaluations[i].result =
          evaluateExpression(evaluations[i].expression, evaluations[i].context)]
  /\ UNCHANGED widgetVars

EvaluatorNext ==
  \/ \E expression \in EvaluatedExpressions, c \in Scopes :
       CallEvaluateExpression(expression, c)
  \/ \E i \in 1..Len(evaluations) : PromiseSettles(i)

EvaluatorSpec == EvaluatorInit /\ [][EvaluatorNext]_vars

\* ------------------------------------------------------------- claims
\* The step changed the expression text.
newText(before, after) == after.expression # before.expression

\* The evaluation whose promise resolves in a step (empty in other steps).
Completing == inflight \ inflight'

\* The outcome of the most recently issued evaluation.
LatestResult ==
  evaluateExpression(latestEval.eval.expression, latestEval.eval.context)

\* C1: a completion whose version is older than the current one never calls
\* onChange and leaves the WrappedValue as it is; and once an evaluation B
\* issued after another one has completed successfully, nothing is in flight
\* and no handler has rewritten the value since, __value__ is B's coerced
\* result.
StaleResultSuppression ==
  [][ /\ \A e \in Completing :
           e.version < evaluationVersion => (wv' = wv /\ ~lastOp'.emitted)
      /\ ( /\ latestEval'.status = "done"
           /\ latestEval'.eval.version >= 2
           /\ inflight' = {}
           /\ LatestResult'.success )
         => wv'.value = coerceValueForField(LatestResult'.value, field')
    ]_vars

\* C1 witness: the older evaluation completed last and was discarded, the
\* later one had succeeded, and the value is the later one's result.
StaleResultSuppressionWitness ==
  /\ lastOp.kind = "completion"
  /\ ~lastOp.emitted
  /\ latestEval.status = "done"
  /\ latestEval.eval.version = 2
  /\ inflight = {}
  /\ LatestResult.success
  /\ wv.value = coerceValueForField(LatestResult.value, field)

\* C2: a completion that arrives while the widget is in static mode leaves the
\* WrappedValue unchanged.
CompletionIgnoredInStaticMode ==
  [][ (lastOp'.kind = "completion" /\ currentMode = "static") => wv' = wv ]_vars

\* C3: after an edit of the expression text, the completion of an evaluation
\* issued for another text is not applied.
StaleEditDiscarded ==
  [][ \A e \in Completing :
        e.expression # Trim(wv.expression) => (wv' = wv /\ ~lastOp'.emitted)
    ]_vars

\* C4: a step that calls evaluateExpression ends with the widget in dynamic
\* mode: nothing is issued while the widget's mode is static.
StaticModePurity ==
  [][ (lastOp'.issued \/ inflight' \ inflight # {} \/
       evaluationVersion' # evaluationVersion)
      => (currentMode' = "dynamic" /\ wv'.mode = "dynamic") ]_vars

\* C4 witness: a debounce timer fired with a non-blank text, or the scope
\* changed, while the widget was in static mode, and nothing was issued.
StaticModePurityWitness ==
  /\ currentMode = "static"
  /\ lastOp.kind \in {"timer", "context"}
  /\ ~IsBlank(debouncedExpression)
  /\ wv.expression = debouncedExpression
  /\ ~lastOp.issued

\* C5: an expression edit issues no evaluation and leaves exactly one timer
\* pending, the one holding its text; the firing of that timer issues at most
\* one evaluation, with the trimmed text of the last edit, and leaves no timer.
DebounceCoalescing ==
  [][ /\ lastOp'.kind = "expression" =>
           /\ ~lastOp'.issued
           /\ inflight' = inflight
           /\ evaluationVersion' = evaluationVersion
           /\ newText(wv, wv') => timers' = {wv'.expression}
      /\ lastOp'.kind = "timer" =>
           /\ timers' = {}
           /\ Cardinality(inflight' \ inflight) <= 1
           /\ evaluationVersion' <= evaluationVersion + 1
           /\ \A e \in inflight' \ inflight :
                /\ e.expression = Trim(wv.expression)
                /\ e.version = evaluationVersion'
    ]_vars

\* C5 witness: two or more edits were made before the timer fired, and the
\* firing issued one evaluation, of the last text.
DebounceCoalescingWitness ==
  /\ lastOp.kind = "timer"
  /\ lastOp.coalesced = 2
  /\ lastOp.issued
  /\ latestEval.status = "pending"
  /\ latestEval.eval.expression = Trim(wv.expression)
  /\ timers = {}

\* C6: an applied completion of a failed evaluation keeps __value__ and sets
\* __error__ to the failure message.
FailureKeepsValue ==
  [][ \A e \in Completing :
        LET result == evaluateExpression(e.expression, e.context) IN
        (lastOp'.emitted /\ ~result.success) =>
          (wv'.value = wv.value /\ wv'.error = result.error)
    ]_vars

\* C6 witness: a failure was applied while the value was an earlier result.
FailureKeepsValueWitness ==
  /\ lastOp.kind = "completion"
  /\ lastOp.emitted
  /\ wv.error = ErrorMessage("Syntax error")
  /\ wv.value \notin StaticLiterals(field)

\* C7: an applied completion of a successful evaluation sets __value__ to the
\* coerced result and removes __error__.
SuccessCoercesAndClears ==
  [][ \A e \in Completing :
        LET result == evaluateExpression(e.expression, e.context) IN
        (lastOp'.emitted /\ result.success) =>
          /\ wv'.value = coerceValueForField(result.value, field)
          /\ wv'.error = NoError
    ]_vars

\* C7 witness: a success was applied over a WrappedValue that carried an
\* error, and the coercion changed the result (an object or undefined).
SuccessCoercesAndClearsWitness ==
  /\ lastOp.kind = "completion"
  /\ lastOp.emitted
  /\ lastOp.hadError
  /\ wv.error = NoError
  /\ latestEval.status = "done"
  /\ LatestResult.success
  /\ LatestResult.value # wv.value
  /\ wv.value = coerceValueForField(LatestResult.value, field)

\* The literal that only an edit in the static control produces (the mount
\* literal and the evaluation results differ from it).
TypedLiteral(fieldType) == IF fieldType = "number" THEN Num(2) ELSE Str("Bye")

\* C8: after a static edit to v, a toggle to dynamic, any events, and a toggle
\* back to static, __value__ is v; and it is still v after the next event,
\* unless that event is a static edit.
StaticValueRoundTrip ==
  [][ /\ ( /\ lastOp'.kind = "mode" /\ lastOp'.toggled
           /\ currentMode' = "static"
           /\ wv.staticValue = TypedLiteral(field) )
         => wv'.value = TypedLiteral(field)
      /\ ( /\ lastOp.kind = "mode" /\ lastOp.toggled
           /\ currentMode = "static"
           /\ wv.staticValue = TypedLiteral(field)
           /\ wv.value = TypedLiteral(field)
           /\ lastOp'.kind # "static" )
         => wv'.value = wv.value
    ]_vars

\* C9: the WrappedValue a tab click emits has the __expression__ and the
\* __staticValue__ of the one before the click.
ModeToggleKeepsWork ==
  [][ lastOp'.kind = "mode" =>
        /\ wv'.expression = wv.expression
        /\ wv'.staticValue = wv.staticValue
    ]_vars

\* C9 witness: the widget was toggled while the WrappedValue held both an
\* expression text and a typed static value.
ModeToggleKeepsWorkWitness ==
  /\ lastOp.kind = "mode"
  /\ lastOp.toggled
  /\ wv.expression \in Expressions
  /\ wv.staticValue = TypedLiteral(field)

\* C10: the WrappedValue emitted by a tab click, a static edit or an
\* expression edit has no __error__, and neither has the one emitted by an
\* applied successful completion.
ErrorClearedByEdits ==
  [][ /\ lastOp'.kind \in {"mode", "static", "expression"} =>
           (lastOp'.emitted /\ wv'.error = NoError)
      /\ \A e \in Completing :
           (lastOp'.emitted /\ evaluateExpression(e.expression, e.context).success)
             => wv'.error = NoError
    ]_vars

\* C10 witness: an expression edit arrived while __error__ was present.
ErrorClearedByEditsWitness ==
  /\ lastOp.kind = "expression"
  /\ lastOp.hadError
  /\ wv.error = NoError

\* ------------------------------------------------------ resolver claims
\* The WrappedValue shape: an object with __mode__ static or dynamic and a
\* __value__ field.
WrappedValueShape(h, v) ==
  /\ IsRef(v)
  /\ {"__mode__", "__value__"} \subseteq KeySet(h[v.n])
  /\ \E m \in Modes : Get(h[v.n], "__mode__") = Str(m)

\* The objects the object at address a refers to.
Successors(h, a) ==
  { h[a].vals[i].n : i \in { j \in 1..Len(h[a].vals) : IsRef(h[a].vals[j]) } }

RECURSIVE ReachableFrom(_, _)
ReachableFrom(h, S) ==
  LET T == S \cup UNION { Successors(h, a) : a \in S } IN
  IF T = S THEN S ELSE ReachableFrom(h, T)

\* The objects reachable from a value, at any depth.
Reachable(h, v) == IF IsRef(v) THEN ReachableFrom(h, {v.n}) ELSE {}

\* A reference cycle is reachable from the value.
HasCycle(h, v) ==
  \E a \in Reachable(h, v) : a \in ReachableFrom(h, Successors(h, a))

\* An object is reachable from the value along two different paths.
HasSharing(h, v) ==
  \E a \in Reachable(h, v) :
    \/ \E b, c \in Reachable(h, v) :
         b # c /\ a \in Successors(h, b) /\ a \in Successors(h, c)
    \/ \E b \in Reachable(h, v) :
         Cardinality({ i \in 1..Len(h[b].vals) : h[b].vals[i] = Ref(a) }) >= 2

\* C11: when the input has no reference cycle, no object of WrappedValue
\* shape is reachable from what resolveExpressions returned.
ResolutionReplacesEveryWrappedValue ==
  (resolved.calls = 1 /\ ~HasCycle(resolved.before, resolved.input))
    => \A a \in Reachable(heap, resolved.value) : ~WrappedValueShape(heap, Ref(a))

\* Structural equality of two values of a heap: equal primitives, or objects
\* of the same kind with the same keys and structurally equal values.  On
\* graphs with cycles it is the largest such relation.
Related(R, v, w) ==
  IF IsRef(v) /\ IsRef(w) THEN << v.n, w.n >> \in R ELSE v = w

Compatible(h, R, a, b) ==
  /\ h[a].kind = h[b].kind
  /\ KeySet(h[a]) = KeySet(h[b])
  /\ \A k \in KeySet(h[a]) : Related(R, Get(h[a], k), Get(h[b], k))

RECURSIVE Bisimulation(_, _)
Bisimulation(h, R) ==
  LET S == { p \in R : Compatible(h, R, p[1], p[2]) } IN
  IF S = R THEN R ELSE Bisimulation(h, S)

StructurallyEqual(h, v, w) ==
  Related(Bisimulation(h, (1..Len(h)) \X (1..Len(h))), v, w)

\* C13: what a second resolveExpressions returns for the result of the first
\* is structurally equal to that result.
StrippingIsIdempotent ==
  resolved.calls = 2 => StructurallyEqual(heap, resolved.previous, resolved.value)

\* No object of WrappedValue shape is reachable from the value.
IsPlain(h, v) == \A a \in Reachable(h, v) : ~WrappedValueShape(h, Ref(a))

\* C14: for an input that holds no object of WrappedValue shape, the result is
\* structurally equal to the input, and is the input itself when the input
\* is a primitive, null or undefined.
RoundTripOnPlainData ==
  (resolved.calls = 1 /\ IsPlain(resolved.before, resolved.input))
    => /\ StructurallyEqual(heap, resolved.input, resolved.value)
       /\ ~IsRef(resolved.input) => resolved.value = resolved.input

\* C14 witness: a plain input with a nested container, one of them an object
\* with __mode__ and __value__ whose mode is none of the widget's, was copied.
RoundTripOnPlainDataWitness ==
  /\ resolved.calls = 1
  /\ IsRef(resolved.input)
  /\ IsPlain(resolved.before, resolved.input)
  /\ Cardinality(Reachable(resolved.before, resolved.input)) = MaxObjects
  /\ \E a \in Reachable(resolved.before, resolved.input) :
       HasKey(resolved.before[a], "__mode__")
  /\ resolved.value # resolved.input
  /\ StructurallyEqual(heap, resolved.input, resolved.value)

\* C15: a call of resolveExpressions returns, and it enters no object twice.
CycleSafety ==
  resolved.calls >= 1 =>
    /\ \A i, j \in 1..Len(resolved.entered) :
         resolved.entered[i] = resolved.entered[j] => i = j
    /\ \A i \in 1..Len(resolved.entered) :
         resolved.entered[i] \in Reachable(resolved.before, resolved.input)

\* C15 witness: the call returned for a WrappedValue whose __value__ refers
\* back to the object that holds it, an object that also holds it twice.
CycleSafetyWitness ==
  /\ resolved.calls = 1
  /\ IsRef(resolved.input)
  /\ HasCycle(resolved.before, resolved.input)
  /\ HasSharing(resolved.before, resolved.input)
  /\ \E a \in Reachable(resolved.before, resolved.input) :
       /\ WrappedValueShape(resolved.before, Ref(a))
       /\ Get(resolved.before[a], "__value__") = resolved.input
  /\ Len(resolved.entered) = MaxObjects

\* C16: after a call, every object that was in the heap before it has the
\* keys and the values it had.
InputNotMutated ==
  resolved.calls >= 1 =>
    /\ Len(heap) >= Len(resolved.before)
    /\ \A a \in 1..Len(resolved.before) : heap[a] = resolved.before[a]

\* C16 witness: a call replaced a WrappedValue inside a container, and the
\* container it was given still holds the WrappedValue.
InputNotMutatedWitness ==
  /\ resolved.calls = 1
  /\ IsRef(resolved.input)
  /\ ~WrappedValueShape(heap, resolved.input)
  /\ \E i \in 1..Len(heap[resolved.input.n].vals) :
       /\ WrappedValueShape(heap, heap[resolved.input.n].vals[i])
       /\ IsRef(resolved.value)
       /\ heap[resolved.value.n].vals[i] = Str("Hello")

\* C17: for an array or a plain object, the returned container and every
\* container reachable from it were allocated by the call.
AlwaysNewContainers ==
  (resolved.calls = 1 /\ IsRef(resolved.input)
     /\ ~WrappedValueShape(resolved.before, resolved.input))
    => /\ IsRef(resolved.value)
       /\ \A a \in Reachable(heap, resolved.value) : a > Len(resolved.before)

\* The input is a tree: no cycle and no object reachable along two paths.
IsTree(h, v) == ~HasCycle(h, v) /\ ~HasSharing(h, v)

\* ------------------------------------------------- transformer claims
\* config.components, and one component of it.
ComponentsOf(h, cfg) == h[Get(h[cfg.n], "components").n]

ComponentOf(h, cfg, componentKey) == Get(ComponentsOf(h, cfg), componentKey)

\* The component declares a fields map.
DeclaresFields(h, component) ==
  IsRef(component) /\ IsRef(Get(h[component.n], "fields"))

\* The step is a call of withExpressions.
Transforming == transformedConfig = Undef /\ transformedConfig' # Undef

\* The value the original render must receive for a props value.
PlainValue(h, v) ==
  IF WrappedValueShape(h, v) THEN Get(h[v.n], "__value__") ELSE v

FieldTransformation ==
  [][ Transforming =>
        \A ck \in KeySet(ComponentsOf(heap, config)) :
          DeclaresFields(heap, ComponentOf(heap, config, ck)) =>
            LET fields == Get(heap[ComponentOf(heap, config, ck).n], "fields")
                out    == Get(heap'[ComponentOf(heap', transformedConfig', ck).n],
                              "fields")
            IN /\ IsRef(out)
               /\ \A fk \in KeySet(heap[fields.n]) :
                    LET f == Get(heap[fields.n], fk)
                        o == Get(heap'[out.n], fk)
                    IN IsRef(f) =>
                         IF \E ft \in {"text", "textarea", "number", "select", "radio"} :
                              Get(heap[f.n], "type") = Str(ft)
                           THEN /\ IsRef(o)
                                /\ Get(heap'[o.n], "type") = Str("custom")
                                /\ Get(heap'[o.n], "label") = Get(heap[f.n], "label")
                                /\ Get(heap'[o.n], "render").t = "ExpressionFieldRender"
                           ELSE /\ o = f
                                /\ \A a \in Reachable(heap, f) : heap'[a] = heap[a]
    ]_vars

\* C18 witness: a component of the transformed config holds a custom field in
\* place of a text field and the array field of the input, with the text
\* field still inside its arrayFields.
FieldTransformationWitness ==
  /\ transformedConfig # Undef
  /\ LET in  == Get(heap[ComponentOf(heap, config, "Hero").n], "fields")
         out == Get(heap[ComponentOf(heap, transformedConfig, "Hero").n], "fields")
     IN /\ IsRef(in)
        /\ IsRef(Get(heap[in.n], "title"))
        /\ Get(heap[Get(heap[in.n], "title").n], "type") = Str("text")
        /\ Get(heap[Get(heap[out.n], "title").n], "type") = Str("custom")
        /\ Get(heap[out.n], "items") = Get(heap[in.n], "items")
        /\ Get(heap[Get(heap[out.n], "items").n], "type") = Str("array")
        /\ Get(heap[Get(heap[Get(heap[out.n], "items").n], "arrayFields").n], "name")
             = Get(heap[in.n], "title")

\* C19: a call of withExpressions changes no object that existed before it,
\* and the config it returns and that config's components map are objects
\* allocated by the call.
ConfigNotMutated ==
  [][ Transforming =>
        /\ Len(heap') >= Len(heap)
        /\ \A a \in 1..Len(heap) : heap'[a] = heap[a]
        /\ IsRef(transformedConfig')
        /\ transformedConfig'.n > Len(heap)
        /\ Get(heap'[transformedConfig'.n], "components").n > Len(heap)
        /\ Get(heap'[transformedConfig'.n], "components")
             # Get(heap[config.n], "components")
    ]_vars

\* C19 witness: withExpressions replaced a component in the components map
\* it returned, and the input map still holds the input component.
ConfigNotMutatedWitness ==
  /\ transformedConfig # Undef
  /\ transformedConfig # config
  /\ ComponentOf(heap, transformedConfig, "Hero") # ComponentOf(heap, config, "Hero")
  /\ ComponentOf(heap, config, "Hero") = Ref(4)
  /\ Get(heap[4], "render") = Fn("Hero")

\* C20: a component whose fields are absent, undefined or null is, in the
\* returned config, the input component object itself, left as it was.
NoFieldsPassThrough ==
  [][ Transforming =>
        \A ck \in KeySet(ComponentsOf(heap, config)) :
          LET component == ComponentOf(heap, config, ck) IN
          Get(heap[component.n], "fields") \in {Undef, Null} =>
            /\ ComponentOf(heap', transformedConfig', ck) = component
            /\ heap'[component.n] = heap[component.n]
    ]_vars

\* C20 witness: of the two components, one declares no fields key, the other
\* declares null, and both are the input objects in the returned config.
NoFieldsPassThroughWitness ==
  /\ transformedConfig # Undef
  /\ ~HasKey(heap[ComponentOf(heap, config, "Hero").n], "fields")
  /\ Get(heap[ComponentOf(heap, config, "Card").n], "fields") = Null
  /\ ComponentOf(heap, transformedConfig, "Hero") = ComponentOf(heap, config, "Hero")
  /\ ComponentOf(heap, transformedConfig, "Card") = ComponentOf(heap, config, "Card")
  /\ Get(heap[ComponentOf(heap, transformedConfig, "Hero").n], "render") = Fn("Hero")

\* C21: withExpressions returns for a fields map with null or undefined
\* entries: each such key is absent from the fields map of the output, and
\* every other key is present, a primitive field as a custom field and any
\* other field as the input field itself.
MalformedFieldsSkipped ==
  [][ Transforming =>
        \A ck \in KeySet(ComponentsOf(heap, config)) :
          DeclaresFields(heap, ComponentOf(heap, config, ck)) =>
            LET fields == Get(heap[ComponentOf(heap, config, ck).n], "fields")
                out    == Get(heap'[ComponentOf(heap', transformedConfig', ck).n],
                              "fields")
            IN /\ IsRef(out)
               /\ KeySet(heap'[out.n])
                    = { fk \in KeySet(heap[fields.n]) :
                          Get(heap[fields.n], fk) \notin {Null, Undef} }
               /\ \A fk \in KeySet(heap'[out.n]) :
                    LET f == Get(heap[fields.n], fk)
                        o == Get(heap'[out.n], fk)
                    IN \/ o = f
                       \/ /\ IsRef(o)
                          /\ Get(heap'[o.n], "type") = Str("custom")
                          /\ Get(heap'[o.n], "render") = ExpressionFieldRender(f)
    ]_vars

\* C21 witness: the fields map of Hero held an undefined title and that of
\* Card a null title; the returned config holds both components with the
\* items entry alone, and Hero's items is a custom field.
MalformedFieldsSkippedWitness ==
  /\ transformedConfig # Undef
  /\ LET heroIn  == Get(heap[ComponentOf(heap, config, "Hero").n], "fields")
         cardIn  == Get(heap[ComponentOf(heap, config, "Card").n], "fields")
         heroOut == Get(heap[ComponentOf(heap, transformedConfig, "Hero").n], "fields")
         cardOut == Get(heap[ComponentOf(heap, transformedConfig, "Card").n], "fields")
     IN /\ IsRef(heroIn) /\ IsRef(cardIn)
        /\ HasKey(heap[heroIn.n], "title") /\ Get(heap[heroIn.n], "title") = Undef
        /\ HasKey(heap[cardIn.n], "title") /\ Get(heap[cardIn.n], "title") = Null
        /\ KeySet(heap[heroOut.n]) = {"items"}
        /\ KeySet(heap[cardOut.n]) = {"items"}
        /\ Get(heap[Get(heap[heroOut.n], "items").n], "type") = Str("custom")

\* The strings of the model that start with "JSONata evaluation failed: ".
StartsWithFailurePrefix(s) ==
  s \in { "JSONata evaluation failed: Syntax error",
          "JSONata evaluation failed: [object Object]",
          "JSONata evaluation failed: <message>" }

HasDeclaredType(v, fieldType) ==
  IF fieldType = "number" THEN v.t = "number" ELSE v.t = "string"

\* C23: when the WrappedValue the widget was mounted on had a __value__ of
\* the field's declared type, __value__ has that type in every later state:
\* a string for text, textarea, select and radio, a number other than NaN for
\* number.
ValueTypeInvariant ==
  HasDeclaredType(Normalize(heap, valueProp).value, field)
    => HasDeclaredType(wv.value, field)

\* C24: no completion raises: the coercion of an applied result returns a
\* value for every result and every field type, so no step of the widget is
\* a completion that ended in an unhandled rejection.
CoercionAlwaysSucceeds == lastOp.kind # "rejection"

\* C25: at mount, a value prop that lacks the WrappedValue shape (an object
\* with __mode__ and __value__ whose __mode__ is static or dynamic) makes a
\* static literal: the widget is in static mode, __value__ and
\* __staticValue__ are the value prop and there is no expression; a value
\* prop that has the shape is used as it is.
NormalisationByShape ==
  lastOp.kind = "mount" =>
    IF WrappedValueShape(heap, valueProp)
      THEN /\ wv = ReadWrappedValue(heap[valueProp.n])
           /\ currentMode = wv.mode
      ELSE /\ currentMode = "static"
           /\ wv.mode = "static"
           /\ wv.value = valueProp
           /\ wv.staticValue = valueProp
           /\ wv.expression = NoExpr

\* The WrappedValue shows the outcome of the most recently issued evaluation,
\* and no evaluation is in flight.
ReflectsLastIssued ==
  latestEval.status # "none" =>
    /\ inflight = {}
    /\ IF LatestResult.success
         THEN /\ wv.value = coerceValueForField(LatestResult.value, field)
              /\ wv.error = NoError
         ELSE wv.error = LatestResult.error

\* A pending timer that the bound on evaluations keeps from firing.
Capped == evaluationVersion = MaxEvals /\ timers # {}

\* C26: when from some point on the widget is in dynamic mode and only the
\* widget's own steps happen (no edit, no tab click, no change of scope),
\* the WrappedValue eventually shows the outcome of the last issued
\* evaluation and stays so.
LastIssuedWins ==
  (<>[](currentMode = "dynamic") /\ <>[][SystemStep]_vars)
    => <>[](ReflectsLastIssued \/ Capped)

\* C27: a step issues an evaluation only when it changes the widget's mode,
\* the scope or the debounced expression text; so the step that applies a
\* completion, and every step after it that changes none of the three,
\* issues nothing.
NoReevaluationLoop ==
  [][ (inflight' \ inflight # {} \/ evaluationVersion' # evaluationVersion)
        => \/ currentMode' # currentMode
           \/ context' # context
           \/ debouncedExpression' # debouncedExpression
    ]_vars

\* C27 witness: a failure was applied and fed back, and the widget is at
\* rest: nothing is in flight and no timer is pending.
NoReevaluationLoopWitness ==
  /\ lastOp.kind = "completion"
  /\ lastOp.emitted
  /\ wv.error # NoError
  /\ inflight = {}
  /\ timers = {}

\* C28: in dynamic mode with a debounced text that is absent or blank, the
\* mount and every step issue no evaluation; when the evaluation effect runs
\* on such a text and the WrappedValue holds an __error__, the same
\* WrappedValue without __error__ is emitted.
BlankNeverEvaluates ==
  /\ []((lastOp.kind = "mount" /\ currentMode = "dynamic"
           /\ IsBlank(debouncedExpression))
          => /\ inflight = {}
             /\ evaluationVersion = 0
             /\ wv.error = NoError
             /\ lastOp.hadError => lastOp.emitted)
  /\ [][ (currentMode' = "dynamic" /\ IsBlank(debouncedExpression'))
           => /\ inflight' \subseteq inflight
              /\ evaluationVersion' = evaluationVersion
              /\ (/\ currentMode = "dynamic"
                  /\ context' # context \/ debouncedExpression' # debouncedExpression)
                   => IF wv.error # NoError
                        THEN /\ lastOp'.emitted
                             /\ wv' = [wv EXCEPT !.error = NoError]
                        ELSE wv' = wv
       ]_vars

\* C28 witness: a timer fired with a blank text while the WrappedValue held
\* an __error__, and the WrappedValue was emitted without it.
BlankNeverEvaluatesWitness ==
  /\ lastOp.kind = "timer"
  /\ lastOp.hadError
  /\ lastOp.emitted
  /\ ~lastOp.issued
  /\ currentMode = "dynamic"
  /\ IsBlank(debouncedExpression)
  /\ wv.error = NoError

\* C29: an __error__ is present only in dynamic mode and only as the message
\* of the failure that the most recently applied completion carried: there
\* is none after the mount, a step leaves one only by applying a failed
\* completion with that message, and while it stays no other completion is
\* applied.
ErrorProvenance ==
  /\ [](lastOp.kind = "mount" => wv.error = NoError)
  /\ [][ wv'.error # NoError
           => /\ wv'.mode = "dynamic"
              /\ \/ /\ lastOp'.kind = "completion" /\ lastOp'.emitted
                    /\ \E e \in Completing :
                         LET result == evaluateExpression(e.expression, e.context)
                         IN ~result.success /\ wv'.error = result.error
                 \/ /\ ~(lastOp'.kind = "completion" /\ lastOp'.emitted)
                    /\ wv'.error = wv.error
       ]_vars

\* C29 witness: the failure message of an applied completion is still there
\* after a later step of the widget.
ErrorProvenanceWitness ==
  /\ wv.error = "JSONata evaluation failed: Syntax error"
  /\ wv.mode = "dynamic"
  /\ lastOp.kind \in {"timer", "context"}

\* C30: the widget's mode is the __mode__ of the WrappedValue it emitted
\* last, or of the incoming value when it has emitted none.
ModeMirrorsWrappedValue == currentMode = wv.mode

\* C31: a static edit emits a WrappedValue whose __value__ and
\* __staticValue__ are the literal typed and whose __mode__ and
\* __expression__ are those it had; the step issues no evaluation.
StaticEditFrame ==
  [][ lastOp'.kind = "static"
        => /\ lastOp'.emitted
           /\ wv'.value \in StaticLiterals(field)
           /\ wv'.staticValue = wv'.value
           /\ wv'.mode = wv.mode
           /\ wv'.expression = wv.expression
           /\ inflight' = inflight
           /\ evaluationVersion' = evaluationVersion
           /\ timers' = timers
    ]_vars

\* C31 witness: after an expression was typed and the tab set to Static, a
\* static edit replaced both values and kept the expression.
StaticEditFrameWitness ==
  /\ lastOp.kind = "static"
  /\ wv.value = Num(2)
  /\ wv.staticValue = Num(2)
  /\ wv.expression = <<"x">>
  /\ wv.mode = "static"

\* C32: an expression edit emits a WrappedValue with the new text and with the
\* __value__, __staticValue__ and __mode__ it had; the timer firing that
\* follows changes no __value__ either, so __value__ changes next when a
\* completion is applied.
ExpressionEditFrame ==
  [][ /\ lastOp'.kind = "expression"
        => /\ lastOp'.emitted
           /\ wv'.expression \in Expressions
           /\ wv'.value = wv.value
           /\ wv'.staticValue = wv.staticValue
           /\ wv'.mode = wv.mode
      /\ lastOp'.kind \in {"timer", "context"} => wv'.value = wv.value
    ]_vars

\* C32 witness: the text was edited after a result was applied; the result
\* of the old text is still the __value__.
ExpressionEditFrameWitness ==
  /\ lastOp.kind = "expression"
  /\ wv.expression = <<"x">>
  /\ wv.value = Num(7)
  /\ wv.staticValue = Num(1)
  /\ wv.mode = "dynamic"

\* C33: the version counter is 0 until the first evaluation is issued, a step
\* raises it by one exactly when it issues an evaluation, which captures the
\* new value, and no step lowers it; so the evaluations in flight hold
\* distinct versions, none above the counter; and a completion is applied
\* only when its version is the counter's.
VersionCounterMonotonic ==
  /\ [](/\ lastOp.kind = "mount"
             => evaluationVersion = (IF lastOp.issued THEN 1 ELSE 0)
        /\ \A e \in inflight : e.version \in 1..evaluationVersion
        /\ \A e1, e2 \in inflight : e1.version = e2.version => e1 = e2)
  /\ [][ /\ evaluationVersion' \in {evaluationVersion, evaluationVersion + 1}
         /\ lastOp'.issued <=> evaluationVersion' = evaluationVersion + 1
         /\ lastOp'.issued
              => \E e \in inflight' \ inflight :
                   /\ inflight' = inflight \cup {e}
                   /\ e.version = evaluationVersion'
         /\ \A e \in Completing : lastOp'.emitted => e.version = evaluationVersion
       ]_vars

\* C33 witness: two evaluations are in flight, with versions 1 and 2, and the
\* counter is 2.
VersionCounterMonotonicWitness ==
  /\ evaluationVersion = 2
  /\ { e.version : e \in inflight } = {1, 2}

\* C34: for an input without cycles that is an array or a plain object, the
\* result is a container of the same kind with the same keys in the same
\* order (for an array: the same length), and its value at each key is
\* structurally equal to what resolveExpressions returns for the input's
\* value at that key.
StructurePreserved ==
  (/\ resolved.calls = 1
   /\ IsRef(resolved.input)
   /\ ~WrappedValueShape(resolved.before, resolved.input)
   /\ ~HasCycle(resolved.before, resolved.input))
    => /\ IsRef(resolved.value)
       /\ heap[resolved.value.n].kind = resolved.before[resolved.input.n].kind
       /\ heap[resolved.value.n].keys = resolved.before[resolved.input.n].keys
       /\ \A i \in 1..Len(resolved.before[resolved.input.n].vals) :
            LET r == resolveExpressions(heap, resolved.before[resolved.input.n].vals[i],
                                        {})
            IN StructurallyEqual(r.heap, heap[resolved.value.n].vals[i], r.value)

\* C35: an applied completion emits the __expression__ and the
\* __staticValue__ of the WrappedValue it finds, whatever was edited while
\* the evaluation was in flight.
CompletionKeepsEdits ==
  [][ \A e \in Completing :
        lastOp'.emitted => /\ wv'.expression = wv.expression
                           /\ wv'.staticValue = wv.staticValue ]_vars

\* A completion was applied to a WrappedValue whose expression text is no
\* longer the text that was evaluated, and the edited text is in the result.
CompletionKeepsEditsWitness ==
  /\ lastOp.kind = "completion"
  /\ lastOp.emitted
  /\ latestEval.status = "done"
  /\ Trim(wv.expression) # latestEval.eval.expression
  /\ wv.staticValue # wv.value

\* C36: an evaluation is issued for the trimmed __expression__ text the
\* WrappedValue has at that moment (at the mount too), and a successful
\* completion that is applied writes the coerced result of the text the
\* WrappedValue has when it is applied.
EvaluatesCurrentText ==
  /\ [](lastOp.kind = "mount" =>
          \A e \in inflight : e.expression = Trim(wv.expression))
  /\ [][ /\ lastOp'.issued =>
              \A e \in inflight' \ inflight : e.expression = Trim(wv'.expression)
         /\ \A e \in Completing :
              (lastOp'.emitted /\ evaluateExpression(e.expression, e.context).success)
                => wv'.value =
                     coerceValueForField(
                       evaluateExpression(Trim(wv.expression), e.context).value,
                       field) ]_vars

\* The last event was the one edit made since the debounced text was set, it
\* made the text blank, and e evaluates the text it replaced.
BlankEditWhileInFlight(e) ==
  /\ lastOp.kind = "expression"
  /\ burst = 1
  /\ IsBlank(wv.expression)
  /\ ~IsBlank(debouncedExpression)
  /\ e.expression = Trim(debouncedExpression)

\* C37: when the text was edited to blank while an evaluation of the text
\* before it was in flight, the completion of that evaluation is not applied:
\* it emits nothing and __value__ and __error__ stay as the edit left them.
BlankEditDiscardsInFlight ==
  [][ \A e \in Completing :
        BlankEditWhileInFlight(e) => /\ ~lastOp'.emitted
                                     /\ wv' = wv ]_vars

\* C38: a scope change in dynamic mode with a debounced text that is not
\* blank issues, in the same step, an evaluation of that text against the new
\* scope under the next version; and a completion of an evaluation against a
\* scope other than the one of the evaluation issued last is discarded.
ScopeChangeReevaluates ==
  [][ /\ (context' # context /\ currentMode = "dynamic"
                             /\ ~IsBlank(debouncedExpression))
           => /\ lastOp'.issued
              /\ evaluationVersion' = evaluationVersion + 1
              /\ \E e \in inflight' \ inflight :
                   /\ e.context = context'
                   /\ e.version = evaluationVersion'
                   /\ e.expression = Trim(debouncedExpression)
      /\ \A e \in Completing :
           (latestEval.status # "none" /\ e.context # latestEval.eval.context)
             => /\ ~lastOp'.emitted
                /\ wv' = wv ]_vars

\* The scope has just changed in dynamic mode: the evaluation against the new
\* scope holds the current version and one against the old scope is still in
\* flight.
ScopeChangeReevaluatesWitness ==
  /\ lastOp.kind = "context"
  /\ lastOp.issued
  /\ \E e1, e2 \in inflight :
       /\ e1.context # context
       /\ e2.context = context
       /\ e2.version = evaluationVersion
       /\ e1.version < e2.version

\* The fields of a component of a config.
FieldsOf(h, cfg, componentKey) == Get(h[ComponentOf(h, cfg, componentKey).n], "fields")

\* The props the component's own render function received in a call.
InnermostProps(calls) == calls[Len(calls)].arg

\* C39: after withExpressions was applied to its own result, every component
\* has the same field objects under the same keys as after the first
\* application, and a render of the second result hands the component's own
\* function props structurally equal to those the first result's render hands
\* it for the same props, so that both return the same element.
TransformIsIdempotent ==
  config # Ref(1) =>
    /\ \A ck \in {"Hero", "Card"} :
         LET once  == FieldsOf(heap, config, ck)
             twice == FieldsOf(heap, transformedConfig, ck)
         IN IF IsRef(once) /\ IsRef(twice)
              THEN /\ heap[twice.n].keys = heap[once.n].keys
                   /\ heap[twice.n].vals = heap[once.n].vals
              ELSE twice = once
    /\ (/\ rendered.count >= 1
        /\ rendered.render
             = Get(heap[ComponentOf(heap, transformedConfig, rendered.component).n],
                   "render"))
         => LET first == CallRender(heap,
                           Get(heap[ComponentOf(heap, config, rendered.component).n],
                               "render"),
                           rendered.props)
            IN /\ rendered.returned.t = first.returned.t
               /\ rendered.returned.s = first.returned.s
               /\ StructurallyEqual(first.heap, InnermostProps(rendered.calls),
                                    InnermostProps(first.calls))

====
